---------------------------- MODULE Spec2Model ----------------------------
(***************************************************************************)
(* Model of src/main.py: the price-comparison engine of "Analisis          *)
(* Comparativo - Autopartes".                                              *)
(*                                                                         *)
(*   clean_price               -> clean_price, ReSub, PyFloat              *)
(*   normalize_columns         -> normalize_columns and its helpers        *)
(*   calculate_text_similarity -> calculate_text_similarity, Ratio, ...    *)
(*   main                      -> the actions of Spec (one comparison run) *)
(*                                                                         *)
(* A floating point number is written as the exact reduced fraction        *)
(* [n |-> numerator, d |-> denominator] it is the nearest double to; where *)
(* the binary value matters (round(2)) the double is computed bit by bit.  *)
(* Strings that the code inspects character by character are sequences of  *)
(* one-character strings.                                                  *)
(***************************************************************************)
EXTENDS Integers, Sequences, FiniteSets, TLC

VARIABLES
    pc,        \* position of the run / of the function under study
    fileA,     \* raw table A as read by pd.read_excel (headers + rows)
    fileB,     \* raw table B
    normA,     \* result of normalize_columns(df_a_raw)
    normB,     \* result of normalize_columns(df_b_raw)
    results,   \* the results dictionary built in main (or NoResults)
    shown,     \* what the run has put on the page, in order
    val,       \* clean_price: the argument
    priceOut,  \* clean_price: the value returned
    s1,        \* calculate_text_similarity: first argument
    s2,        \* calculate_text_similarity: second argument
    simOut,    \* calculate_text_similarity(s1, s2)
    simRev,    \* calculate_text_similarity(s2, s1)
    rawDf,     \* normalize_columns: the argument
    normOut    \* normalize_columns: the value returned (or the exception)

vars == <<pc, fileA, fileB, normA, normB, results, shown, val, priceOut,
          s1, s2, simOut, simRev, rawDf, normOut>>

-----------------------------------------------------------------------------
(* Bounds of the model *)

MaxPriceLen == 3
MaxStrLen == 3
MaxCols == 3
MaxRows == 2

-----------------------------------------------------------------------------
(* Generic helpers *)

RECURSIVE GCD(_, _)
GCD(a, b) == IF b = 0 THEN a ELSE GCD(b, a % b)

Abs(x) == IF x < 0 THEN -x ELSE x

RECURSIVE Pow10(_)
Pow10(k) == IF k = 0 THEN 1 ELSE 10 * Pow10(k - 1)

\* A float as an exact fraction in lowest terms, d > 0.
Frac(num, den) ==
    LET g == GCD(Abs(num), Abs(den))
        sg == IF den < 0 THEN -1 ELSE 1
    IN  [n |-> sg * (num \div g), d |-> sg * (den \div g)]

Zero == [n |-> 0, d |-> 1]

FracSub(x, y) == Frac(x.n * y.d - y.n * x.d, x.d * y.d)
FracMul(x, y) == Frac(x.n * y.n, x.d * y.d)
\* x / y for y # 0.
FracDiv(x, y) == Frac(x.n * y.d, x.d * y.n)
FracLeq(x, y) == x.n * y.d <= y.n * x.d

\* All sequences over S of length at most n.
SeqsUpTo(S, n) == UNION {[1..k -> S] : k \in 0..n}

-----------------------------------------------------------------------------
(* clean_price *)

Digits == {"0", "1", "2", "3", "4", "5", "6", "7", "8", "9"}

DigitVal == "0" :> 0 @@ "1" :> 1 @@ "2" :> 2 @@ "3" :> 3 @@ "4" :> 4 @@
            "5" :> 5 @@ "6" :> 6 @@ "7" :> 7 @@ "8" :> 8 @@ "9" :> 9

\* Cell values: a missing cell (None/NaN), a number, or a string.
NoneVal == [t |-> "none"]
NumVal(x) == [t |-> "num", v |-> x]
StrVal(s) == [t |-> "str", s |-> s]

\* re.sub(r'[^0-9.-]', '', s): keeps digits, '.' and '-', mutant: also keeps ','.
ReSubKeepComma(s) == SelectSeq(s, LAMBDA c : c \in Digits \cup {".", "-", ","})

ReSub(s) == SelectSeq(s, LAMBDA c : c \in Digits \cup {".", "-"})

\* The digits of s read as a decimal integer.
RECURSIVE DigitsToInt(_)
DigitsToInt(s) ==
    IF s = <<>> THEN 0
    ELSE 10 * DigitsToInt(SubSeq(s, 1, Len(s) - 1)) + DigitVal[s[Len(s)]]

\* Position of the first '.' in s, or 0.
DotPos(s) ==
    IF \E i \in 1..Len(s) : s[i] = "."
    THEN CHOOSE i \in 1..Len(s) : s[i] = "." /\ \A j \in 1..(i - 1) : s[j] # "."
    ELSE 0

\* float(cleaned) for a string of digits, '.' and '-': an optional leading
\* '-', then digits with at most one '.', at least one digit.  Anything
\* else is a ValueError.
PyFloat(s) ==
    LET neg == Len(s) > 0 /\ s[1] = "-"
        body == IF neg THEN Tail(s) ELSE s
        dot == DotPos(body)
        ip == IF dot = 0 THEN body ELSE SubSeq(body, 1, dot - 1)
        fp == IF dot = 0 THEN <<>> ELSE SubSeq(body, dot + 1, Len(body))
        okChars == \A i \in 1..Len(ip) : ip[i] \in Digits
        okFrac == \A i \in 1..Len(fp) : fp[i] \in Digits
    IN  IF okChars /\ okFrac /\ Len(ip) + Len(fp) > 0
        THEN [err |-> FALSE,
              v |-> Frac((IF neg THEN -1 ELSE 1) * DigitsToInt(ip \o fp),
                         Pow10(Len(fp)))]
        ELSE [err |-> TRUE, v |-> Zero]

clean_price(x) ==
    IF x.t = "none" \/ (x.t = "str" /\ x.s = <<>>) THEN Zero
    ELSE IF x.t = "num" THEN x.v
    ELSE LET f == PyFloat(ReSub(x.s))
         IN  IF f.err THEN Zero ELSE f.v

-----------------------------------------------------------------------------
(* normalize_columns *)

\* A raw column header: its text without surrounding whitespace (core) and
\* the number of whitespace characters before and after it.
Header(l, c, r) == [lead |-> l, core |-> c, trail |-> r]

\* str.strip() on a header.
Strip(h) == h.core

\* str.strip() on a string of characters.
RECURSIVE StripStr(_)
StripStr(s) ==
    IF s = <<>> THEN s
    ELSE IF Head(s) = " " THEN StripStr(Tail(s))
    ELSE IF s[Len(s)] = " " THEN StripStr(SubSeq(s, 1, Len(s) - 1))
    ELSE s

\* astype(str) on a cell: a string is itself, a missing cell (NaN) becomes
\* 'nan'.  Key and description cells that are numbers are not modelled.
AsStr(x) ==
    CASE x.t = "str" -> x.s
      [] x.t = "none" -> <<"n", "a", "n">>

\* --- IEEE double arithmetic, as far as round(2) needs it ---
\* A positive double is [e, m]: m its 53 mantissa bits, most significant
\* first, its value m * 2^(e - 52) with 2^e <= value < 2^(e + 1).  Long
\* division and multiplication work on base-64 digits, six bits at a time.

\* The exponent of n/d, counted up from e when n >= d, down when n < d.
RECURSIVE ExpUp(_, _, _)
ExpUp(n, d, e) == IF 2 * d <= n THEN ExpUp(n, 2 * d, e + 1) ELSE e
RECURSIVE ExpDown(_, _, _)
ExpDown(n, d, e) == IF n < d THEN ExpDown(2 * n, d, e - 1) ELSE e

RECURSIVE Pow2(_)
Pow2(k) == IF k = 0 THEN 1 ELSE 2 * Pow2(k - 1)

\* The first k base-64 digits of rem/d (rem < d) after the point.
RECURSIVE DivDigits(_, _, _)
DivDigits(rem, d, k) ==
    IF k = 0 THEN <<>>
    ELSE <<(64 * rem) \div d>> \o DivDigits((64 * rem) % d, d, k - 1)

\* What is left of rem/d after those k digits.
RECURSIVE DivRem(_, _, _)
DivRem(rem, d, k) == IF k = 0 THEN rem ELSE DivRem((64 * rem) % d, d, k - 1)

\* digits * c + carry for a small number c, from the last digit to the first.
RECURSIVE MulSmall(_, _, _)
MulSmall(digits, c, carry) ==
    IF carry = 0 /\ digits = <<>> THEN <<>>
    ELSE LET last == IF digits = <<>> THEN 0 ELSE digits[Len(digits)]
             front == IF digits = <<>> THEN <<>>
                      ELSE SubSeq(digits, 1, Len(digits) - 1)
             t == c * last + carry
         IN  MulSmall(front, c, t \div 64) \o <<t % 64>>

\* The bits of a string of base-64 digits, and the digits of a string of
\* bits whose length is a multiple of six.
DigitBits(digits) ==
    [i \in 1..(6 * Len(digits)) |->
        (digits[(i - 1) \div 6 + 1] \div Pow2(5 - ((i - 1) % 6))) % 2]

BitDigits(bits) ==
    [k \in 1..(Len(bits) \div 6) |->
        32 * bits[6 * k - 5] + 16 * bits[6 * k - 4] + 8 * bits[6 * k - 3]
            + 4 * bits[6 * k - 2] + 2 * bits[6 * k - 1] + bits[6 * k]]

\* bits + 1.
Inc(bits) ==
    LET zeros == {i \in 1..Len(bits) : bits[i] = 0}
        p == CHOOSE i \in zeros : \A j \in zeros : j <= i
    IN  IF zeros = {} THEN <<1>> \o [i \in 1..Len(bits) |-> 0]
        ELSE [i \in 1..Len(bits) |->
                 IF i < p THEN bits[i] ELSE IF i = p THEN 1 ELSE 0]

\* The number a string of at most 31 bits stands for.
RECURSIVE BitsToInt(_)
BitsToInt(bits) ==
    IF bits = <<>> THEN 0
    ELSE 2 * BitsToInt(SubSeq(bits, 1, Len(bits) - 1)) + bits[Len(bits)]

\* Round-to-nearest-even of a bit string of 54 or more bits (leading bit 1,
\* of weight 2^e) to 53 bits; sticky tells that more non-zero bits follow.
RoundBits(bits, sticky, e) ==
    LET keep == SubSeq(bits, 1, 53)
        more == sticky \/ \E i \in 55..Len(bits) : bits[i] = 1
        up == bits[54] = 1 /\ (more \/ keep[53] = 1)
        m == IF up THEN Inc(keep) ELSE keep
    IN  IF Len(m) = 54 THEN [e |-> e + 1, m |-> SubSeq(m, 1, 53)]
        ELSE [e |-> e, m |-> m]

\* The double nearest to n/d, for n, d > 0 (d * 2^e below 2^25).
ToDouble(n, d) ==
    LET e == IF n >= d THEN ExpUp(n, d, 0) ELSE ExpDown(n, d, 0)
        nn == IF e < 0 THEN n * Pow2(-e) ELSE n
        dd == IF e > 0 THEN d * Pow2(e) ELSE d
    IN  RoundBits(<<1>> \o DigitBits(DivDigits(nn - dd, dd, 9)),
                  DivRem(nn - dd, dd, 9) # 0, e)

\* x * 100.0 in double arithmetic: the exact product of the mantissa,
\* rounded back to 53 bits.
Mul100(x) ==
    LET prod == DigitBits(MulSmall(BitDigits(<<0>> \o x.m), 100, 0))
        lead == CHOOSE i \in 1..Len(prod) :
                    prod[i] = 1 /\ \A j \in 1..(i - 1) : prod[j] = 0
        bits == SubSeq(prod, lead, Len(prod))
    IN  RoundBits(bits, FALSE, x.e + (Len(bits) - 53))

\* rint of a positive double below 2^31: the nearest integer, a tie going
\* to the even one.
Rint(x) ==
    IF x.e < -1 THEN 0
    ELSE IF x.e = -1 THEN (IF \E i \in 2..53 : x.m[i] = 1 THEN 1 ELSE 0)
    ELSE LET whole == BitsToInt(SubSeq(x.m, 1, x.e + 1))
             half == x.m[x.e + 2] = 1
             more == \E i \in (x.e + 3)..53 : x.m[i] = 1
         IN  IF half /\ (more \/ whole % 2 = 1) THEN whole + 1 ELSE whole

\* Series.round(2), numpy's rint(x * 100.0) / 100.0 on the double nearest to
\* x: the binary value decides on which side of a decimal tie x falls.
Round2(x) ==
    IF x.n = 0 THEN Zero
    ELSE LET r == Rint(Mul100(ToDouble(Abs(x.n), x.d)))
         IN  Frac((IF x.n < 0 THEN -r ELSE r), 100)

clave_cols == <<"Clave", "clave", "CLAVE", "Codigo", "codigo", "SKU", "sku">>
desc_cols == <<"Descripción", "Descripcion", "descripcion", "Nombre", "nombre">>
price_cols == <<"Precio", "precio", "PRECIO", "Costo", "costo">>

Range(s) == {s[i] : i \in 1..Len(s)}

\* for c in cands: if c in df.columns: col_map[c] = ...; break
\* The set holding the first accepted spelling that is a column, if any.
FirstPresent(cands, cols) ==
    LET hits == {i \in 1..Len(cands) : cands[i] \in Range(cols)}
    IN  IF hits = {} THEN {}
        ELSE {cands[CHOOSE i \in hits : \A j \in hits : i <= j]}

\* The positions of label c in cols, in increasing order.
RECURSIVE Positions(_, _)
Positions(cols, c) ==
    IF cols = <<>> THEN <<>>
    ELSE LET rest == Positions(SubSeq(cols, 1, Len(cols) - 1), c)
         IN  IF cols[Len(cols)] = c THEN Append(rest, Len(cols)) ELSE rest

Returned(ok, cols, rows) == [t |-> "returned", ok |-> ok, columns |-> cols, rows |-> rows]
Raised(e) == [t |-> "raised", error |-> e]

\* normalize_columns(df) for df = [headers, rows], each row a sequence of
\* cells aligned with the headers.
\* Line 43, df.columns = df.columns.astype(str).str.strip(): the caller's
\* table itself gets the trimmed headers, whatever the call returns.
StripColumns(df) ==
    [df EXCEPT !.headers =
        [i \in 1..Len(df.headers) |-> Header(0, Strip(df.headers[i]), 0)]]

normalize_columns(df) ==
    LET stripped == [i \in 1..Len(df.headers) |-> Strip(df.headers[i])]
        keySrc == FirstPresent(clave_cols, stripped)
        descSrc == FirstPresent(desc_cols, stripped)
        priceSrc == FirstPresent(price_cols, stripped)
        col_map == [c \in keySrc \cup descSrc \cup priceSrc |->
                       IF c \in keySrc THEN "Clave"
                       ELSE IF c \in descSrc THEN "Descripcion"
                       ELSE "Precio"]
        \* df.rename(columns=col_map)
        renamed == [i \in 1..Len(stripped) |->
                       IF stripped[i] \in DOMAIN col_map
                       THEN col_map[stripped[i]] ELSE stripped[i]]
        \* df['Descripcion'] = "" and df['Precio'] = 0.0 when missing
        addDesc == "Descripcion" \notin Range(renamed)
        cols1 == IF addDesc THEN Append(renamed, "Descripcion") ELSE renamed
        addPrice == "Precio" \notin Range(cols1)
        cols2 == IF addPrice THEN Append(cols1, "Precio") ELSE cols1
        Fill(row) ==
            LET r1 == IF addDesc THEN Append(row, StrVal(<<>>)) ELSE row
            IN  IF addPrice THEN Append(r1, NumVal(Zero)) ELSE r1
        keyPos == Positions(cols2, "Clave")
        descPos == Positions(cols2, "Descripcion")
        pricePos == Positions(cols2, "Precio")
        \* the three typed columns, every column of that label being set
        Clean(row) ==
            [i \in 1..Len(cols2) |->
                IF cols2[i] = "Clave" THEN StripStr(AsStr(row[i]))
                ELSE IF cols2[i] = "Descripcion" THEN AsStr(row[i])
                ELSE IF cols2[i] = "Precio" THEN Round2(clean_price(row[i]))
                ELSE row[i]]
        \* df[['Clave', 'Descripcion', 'Precio']]
        picked == keyPos \o descPos \o pricePos
        Project(row) == [j \in 1..Len(picked) |-> row[picked[j]]]
    IN  IF "Clave" \notin {col_map[c] : c \in DOMAIN col_map}
        THEN Returned(FALSE, stripped, df.rows)
        \* df['Clave'] is a DataFrame when the label is duplicated: no .str
        ELSE IF Len(keyPos) > 1 THEN Raised("AttributeError")
        \* clean_price receives a whole column when the label is duplicated
        ELSE IF Len(pricePos) > 1 /\ df.rows # <<>> THEN Raised("ValueError")
        ELSE Returned(TRUE,
                      [j \in 1..Len(picked) |-> cols2[picked[j]]],
                      [n \in 1..Len(df.rows) |-> Project(Clean(Fill(df.rows[n])))])

-----------------------------------------------------------------------------
(* calculate_text_similarity *)

UpperToLower == "A" :> "a" @@ "B" :> "b" @@ "C" :> "c"

\* str.lower(), character by character.
Lower(s) ==
    [i \in 1..Len(s) |->
        IF s[i] \in DOMAIN UpperToLower THEN UpperToLower[s[i]] ELSE s[i]]

Min(x, y) == IF x <= y THEN x ELSE y

\* SequenceMatcher's autojunk heuristic (isjunk is None, autojunk is left
\* on): when the second sequence has 200 or more elements, those that occur
\* more than len(b) // 100 + 1 times are popular and start no match.
Popular(b) ==
    IF Len(b) >= 200
    THEN {x \in Range(b) :
             Cardinality({n \in 1..Len(b) : b[n] = x}) > Len(b) \div 100 + 1}
    ELSE {}

\* The length of the run a[i:i+k] == b[j:j+k] inside the ranges that is
\* made of elements that are not popular.
RunLen(a, b, i, ahi, j, bhi, popular) ==
    LET lim == Min(ahi - i, bhi - j)
        Ok(n) == a[i + n + 1] = b[j + n + 1] /\ b[j + n + 1] \notin popular
    IN  CHOOSE k \in 0..lim : /\ \A n \in 0..(k - 1) : Ok(n)
                              /\ k < lim => ~Ok(k)

\* The block t grown to the left over every pair of equal elements, popular
\* or not: while besti > alo and bestj > blo and a[besti-1] == b[bestj-1].
ExtendLeft(a, b, alo, blo, t) ==
    LET lim == Min(t[1] - alo, t[2] - blo)
        Ok(n) == a[t[1] - n] = b[t[2] - n]
        k == CHOOSE m \in 0..lim : /\ \A n \in 0..(m - 1) : Ok(n)
                                   /\ m < lim => ~Ok(m)
    IN  <<t[1] - k, t[2] - k, t[3] + k>>

\* The same to the right: while besti+bestsize < ahi and bestj+bestsize < bhi
\* and a[besti+bestsize] == b[bestj+bestsize].
ExtendRight(a, b, ahi, bhi, t) ==
    <<t[1], t[2], t[3] + RunLen(a, b, t[1] + t[3], ahi, t[2] + t[3], bhi, {})>>

\* SequenceMatcher.find_longest_match(alo, ahi, blo, bhi): among the blocks
\* (i, j, k) with a[i:i+k] == b[j:j+k] inside the two ranges and free of
\* popular elements, the one with k maximal, then i minimal, then j minimal,
\* (alo, blo, 0) when there is none; that block is then extended on both
\* sides.  Indices are Python's (0-based, half-open ranges).
find_longest_match(a, b, alo, ahi, blo, bhi) ==
    LET popular == Popular(b)
        Starts == {p \in (alo..(ahi - 1)) \X (blo..(bhi - 1)) :
                      a[p[1] + 1] = b[p[2] + 1] /\ b[p[2] + 1] \notin popular}
        Blocks == {<<p[1], p[2], RunLen(a, b, p[1], ahi, p[2], bhi, popular)>> :
                      p \in Starts}
        Better(t, u) == \/ t[3] > u[3]
                        \/ t[3] = u[3] /\ t[1] < u[1]
                        \/ t[3] = u[3] /\ t[1] = u[1] /\ t[2] <= u[2]
        best == IF Blocks = {} THEN <<alo, blo, 0>>
                ELSE CHOOSE t \in Blocks : \A u \in Blocks : Better(t, u)
    IN  ExtendRight(a, b, ahi, bhi, ExtendLeft(a, b, alo, blo, best))

\* The total size of the blocks of get_matching_blocks(): the longest block
\* of the range, then recursively the ranges to its left and to its right.
RECURSIVE MatchedChars(_, _, _, _, _, _)
MatchedChars(a, b, alo, ahi, blo, bhi) ==
    LET x == find_longest_match(a, b, alo, ahi, blo, bhi)
        i == x[1]
        j == x[2]
        k == x[3]
    IN  IF k = 0 THEN 0
        ELSE k
             + (IF alo < i /\ blo < j
                THEN MatchedChars(a, b, alo, i, blo, j) ELSE 0)
             + (IF i + k < ahi /\ j + k < bhi
                THEN MatchedChars(a, b, i + k, ahi, j + k, bhi) ELSE 0)

\* SequenceMatcher(None, a, b).ratio(): 2.0 * matches / length, 1.0 when both
\* sequences are empty.
Ratio(a, b) ==
    IF Len(a) + Len(b) = 0 THEN Frac(1, 1)
    ELSE Frac(2 * MatchedChars(a, b, 0, Len(a), 0, Len(b)), Len(a) + Len(b))

\* Mutant: the guard on empty arguments is dropped.
SimilarityNoGuard(a, b) == FracMul(Ratio(Lower(a), Lower(b)), Frac(100, 1))

calculate_text_similarity(a, b) ==
    IF a = <<>> \/ b = <<>> THEN Zero
    ELSE FracMul(Ratio(Lower(a), Lower(b)), Frac(100, 1))

-----------------------------------------------------------------------------
(* main: the analysis of two normalized tables *)

\* Code points of the characters that occur in the keys of the model.
CharCode == " " :> 32 @@ "1" :> 49 @@ "2" :> 50 @@ "X" :> 88 @@ "a" :> 97 @@ "n" :> 110

\* a < b for Python strings: lexicographic by code point.
RECURSIVE StrLess(_, _)
StrLess(a, b) ==
    IF b = <<>> THEN FALSE
    ELSE IF a = <<>> THEN TRUE
    ELSE IF Head(a) = Head(b) THEN StrLess(Tail(a), Tail(b))
    ELSE CharCode[Head(a)] < CharCode[Head(b)]

\* The keys of S in increasing order.
RECURSIVE SortKeys(_)
SortKeys(S) ==
    IF S = {} THEN <<>>
    ELSE LET m == CHOOSE x \in S : \A y \in S \ {x} : StrLess(x, y)
         IN  <<m>> \o SortKeys(S \ {m})

RECURSIVE Concat(_)
Concat(ss) == IF ss = <<>> THEN <<>> ELSE Head(ss) \o Concat(Tail(ss))

\* The rows of a normalized table as records, read by column label.
ColumnOf(df, c) == CHOOSE i \in 1..Len(df.columns) : df.columns[i] = c
Records(df) ==
    [n \in 1..Len(df.rows) |->
        [Clave |-> df.rows[n][ColumnOf(df, "Clave")],
         Descripcion |-> df.rows[n][ColumnOf(df, "Descripcion")],
         Precio |-> df.rows[n][ColumnOf(df, "Precio")]]]

KeysOf(rows) == {rows[n].Clave : n \in 1..Len(rows)}

\* A missing value of the outer join.
NaN == [t |-> "nan"]

\* Mutant of Merge: a left join, the keys found only in B are lost.
MergeLeft(a, b) ==
    LET Group(k) ==
            LET la == SelectSeq(a, LAMBDA r : r.Clave = k)
                lb == SelectSeq(b, LAMBDA r : r.Clave = k)
            IN  IF lb # <<>>
                THEN [n \in 1..(Len(la) * Len(lb)) |->
                         LET x == la[((n - 1) \div Len(lb)) + 1]
                             y == lb[((n - 1) % Len(lb)) + 1]
                         IN  [Clave |-> k,
                              Descripcion_A |-> x.Descripcion, Precio_A |-> x.Precio,
                              Descripcion_B |-> y.Descripcion, Precio_B |-> y.Precio,
                              merge |-> "both"]]
                ELSE [n \in 1..Len(la) |->
                         [Clave |-> k,
                          Descripcion_A |-> la[n].Descripcion, Precio_A |-> la[n].Precio,
                          Descripcion_B |-> NaN, Precio_B |-> NaN,
                          merge |-> "left_only"]]
        keys == SortKeys(KeysOf(a))
    IN  Concat([i \in 1..Len(keys) |-> Group(keys[i])])

\* pd.merge(df_a, df_b, on='Clave', how='outer', suffixes=('_A', '_B'),
\* indicator=True): the keys of both tables in lexicographic order; under a
\* key of both tables every pair of an A row and a B row (A rows outermost),
\* under a key of one table its rows, each group in the order of the input.
Merge(a, b) ==
    LET Group(k) ==
            LET la == SelectSeq(a, LAMBDA r : r.Clave = k)
                lb == SelectSeq(b, LAMBDA r : r.Clave = k)
            IN  IF la # <<>> /\ lb # <<>>
                THEN [n \in 1..(Len(la) * Len(lb)) |->
                         LET x == la[((n - 1) \div Len(lb)) + 1]
                             y == lb[((n - 1) % Len(lb)) + 1]
                         IN  [Clave |-> k,
                              Descripcion_A |-> x.Descripcion, Precio_A |-> x.Precio,
                              Descripcion_B |-> y.Descripcion, Precio_B |-> y.Precio,
                              merge |-> "both"]]
                ELSE IF la # <<>>
                THEN [n \in 1..Len(la) |->
                         [Clave |-> k,
                          Descripcion_A |-> la[n].Descripcion, Precio_A |-> la[n].Precio,
                          Descripcion_B |-> NaN, Precio_B |-> NaN,
                          merge |-> "left_only"]]
                ELSE [n \in 1..Len(lb) |->
                         [Clave |-> k,
                          Descripcion_A |-> NaN, Precio_A |-> NaN,
                          Descripcion_B |-> lb[n].Descripcion, Precio_B |-> lb[n].Precio,
                          merge |-> "right_only"]]
        keys == SortKeys(KeysOf(a) \cup KeysOf(b))
    IN  Concat([i \in 1..Len(keys) |-> Group(keys[i])])

\* Mutant of DiffPct: no guard, a division by zero gives a non-finite value.
DiffPctNoGuard(diff, pa) ==
    IF pa.n = 0 THEN [n |-> diff.n, d |-> 0]
    ELSE FracMul(FracDiv(diff, pa), Frac(100, 1))

\* (x['Diferencia $'] / x['Precio_A'] * 100) if x['Precio_A'] != 0 else 0
DiffPct(diff, pa) ==
    IF pa # Zero THEN FracMul(FracDiv(diff, pa), Frac(100, 1)) ELSE Zero

\* The rows marked both, with the three computed columns.
Common(merged) ==
    LET both == SelectSeq(merged, LAMBDA r : r.merge = "both")
    IN  [n \in 1..Len(both) |->
            LET r == both[n]
                diff == Round2(FracSub(r.Precio_B, r.Precio_A))
            IN  [Clave |-> r.Clave,
                 Descripcion_A |-> r.Descripcion_A, Descripcion_B |-> r.Descripcion_B,
                 Precio_A |-> r.Precio_A, Precio_B |-> r.Precio_B,
                 DiferenciaAbs |-> diff,
                 DiferenciaPct |-> DiffPct(diff, r.Precio_A),
                 Similitud |-> calculate_text_similarity(r.Descripcion_A, r.Descripcion_B)]]

\* The rows marked left_only, with the columns of A.
OnlyA(merged) ==
    LET rows == SelectSeq(merged, LAMBDA r : r.merge = "left_only")
    IN  [n \in 1..Len(rows) |->
            [Clave |-> rows[n].Clave, Descripcion |-> rows[n].Descripcion_A,
             Precio |-> rows[n].Precio_A]]

\* Mutant of OnlyB: the filter keeps every row that has a B side.
OnlyBNotLeft(merged) ==
    LET rows == SelectSeq(merged, LAMBDA r : r.merge # "left_only")
    IN  [n \in 1..Len(rows) |->
            [Clave |-> rows[n].Clave, Descripcion |-> rows[n].Descripcion_B,
             Precio |-> rows[n].Precio_B]]

\* The rows marked right_only, with the columns of B.
OnlyB(merged) ==
    LET rows == SelectSeq(merged, LAMBDA r : r.merge = "right_only")
    IN  [n \in 1..Len(rows) |->
            [Clave |-> rows[n].Clave, Descripcion |-> rows[n].Descripcion_B,
             Precio |-> rows[n].Precio_B]]

\* The results dictionary of main for the normalized tables a and b.
BuildResults(a, b) ==
    LET merged == Merge(Records(a), Records(b))
        common == Common(merged)
        only_a == OnlyA(merged)
        only_b == OnlyB(merged)
    IN  [t |-> "results",
         total_a |-> Len(a.rows),
         total_b |-> Len(b.rows),
         common_count |-> Len(common),
         only_a_count |-> Len(only_a),
         only_b_count |-> Len(only_b),
         common_df |-> common,
         only_a_df |-> only_a,
         only_b_df |-> only_b]

\* convert_df_to_excel: the summary sheet, then a sheet per non-empty table.
Sheets(res) ==
    <<"Resumen">>
    \o (IF res.common_df # <<>> THEN <<"Coincidencias">> ELSE <<>>)
    \o (IF res.only_a_df # <<>> THEN <<"Solo en A">> ELSE <<>>)
    \o (IF res.only_b_df # <<>> THEN <<"Solo en B">> ELSE <<>>)

-----------------------------------------------------------------------------
(* Idle values of the variables a specification does not use *)

Idle == [t |-> "idle"]
NoResults == [t |-> "none"]

IdleRun == /\ fileA = Idle /\ fileB = Idle /\ normA = Idle /\ normB = Idle
           /\ results = NoResults /\ shown = <<>>
IdlePrice == val = Idle /\ priceOut = Idle
IdleSim == s1 = Idle /\ s2 = Idle /\ simOut = Idle /\ simRev = Idle
IdleNorm == rawDf = Idle /\ normOut = Idle

runVars == <<fileA, fileB, normA, normB, results, shown>>
priceVars == <<val, priceOut>>
simVars == <<s1, s2, simOut, simRev>>
normVars == <<rawDf, normOut>>

-----------------------------------------------------------------------------
(* clean_price on bounded inputs *)

PriceAlphabet == {"1", "5", "0", ".", "-", "$", ","}

PriceExamples ==
    {<<"$", "1", ",", "2", "3", "4", ".", "5", "6">>, <<"a", "b", "c">>,
     <<"1", "2", ".", "5", "0">>, <<"-", ".", "5">>, <<"1", ".", "2", ".", "3">>}

PriceNumbers == {Frac(1500, 1), Frac(-25, 10), Zero, Frac(1999, 100)}

PriceInputs ==
    {NoneVal} \cup {NumVal(x) : x \in PriceNumbers}
    \cup {StrVal(s) : s \in SeqsUpTo(PriceAlphabet, MaxPriceLen) \cup PriceExamples}

InitPrice ==
    /\ pc = "price_call"
    /\ val \in PriceInputs
    /\ priceOut = Idle
    /\ IdleRun /\ IdleSim /\ IdleNorm

CleanPrice ==
    /\ pc = "price_call"
    /\ priceOut' = clean_price(val)
    /\ pc' = "price_ret"
    /\ UNCHANGED <<val, runVars, simVars, normVars>>

SpecPrice == InitPrice /\ [][CleanPrice]_vars

-----------------------------------------------------------------------------
(* calculate_text_similarity on bounded inputs *)

SimAlphabet == {"a", "b", "c", "A"}

\* Two texts long enough for the matcher's treatment of popular elements.
LongTexts ==
    {[i \in 1..200 |-> "a"], [i \in 1..200 |-> IF i = 1 THEN "b" ELSE "a"]}

SimInputs == SeqsUpTo(SimAlphabet, MaxStrLen) \cup LongTexts

InitSim ==
    /\ pc = "sim_call"
    /\ s1 \in SimInputs
    /\ s2 \in SimInputs
    /\ simOut = Idle /\ simRev = Idle
    /\ IdleRun /\ IdlePrice /\ IdleNorm

\* The scorer applied to the pair and to the swapped pair.
Similarity ==
    /\ pc = "sim_call"
    /\ simOut' = calculate_text_similarity(s1, s2)
    /\ simRev' = calculate_text_similarity(s2, s1)
    /\ pc' = "sim_ret"
    /\ UNCHANGED <<s1, s2, runVars, priceVars, normVars>>

SpecSim == InitSim /\ [][Similarity]_vars

-----------------------------------------------------------------------------
(* Claims about clean_price (checked under SpecPrice) *)

\* What the claim calls a well-formed number: at least one digit, at most
\* one decimal point, and a minus sign only in first position.
WellFormedNumber(k) ==
    /\ \E i \in 1..Len(k) : k[i] \in Digits
    /\ Cardinality({i \in 1..Len(k) : k[i] = "."}) <= 1
    /\ \A i \in 1..Len(k) : k[i] = "-" => i = 1

\* The decimal number a well-formed k denotes: each digit weighted by its
\* place, the places after the point counted as negative powers of ten.
DecimalValue(k) ==
    LET dots == {i \in 1..Len(k) : k[i] = "."}
        point == IF dots = {} THEN Len(k) + 1 ELSE CHOOSE i \in dots : TRUE
        fracLen == Len(k) - Min(point, Len(k))
        Place(i) == IF i < point THEN fracLen + (point - 1 - i) ELSE Len(k) - i
        digitPos == {i \in 1..Len(k) : k[i] \in Digits}
        Weighted[S \in SUBSET digitPos] ==
            IF S = {} THEN 0
            ELSE LET i == CHOOSE x \in S : TRUE
                 IN  DigitVal[k[i]] * Pow10(Place(i)) + Weighted[S \ {i}]
        sign == IF Len(k) > 0 /\ k[1] = "-" THEN -1 ELSE 1
    IN  Frac(sign * Weighted[digitPos], Pow10(fracLen))

\* C7: clean_price never raises; None/NaN and "" give 0.0, a number is
\* returned unchanged, and a string gives the decimal value of what is left
\* after dropping every character other than a digit, '.' or '-', or 0.0
\* when that is not a well-formed number; "$1,234.56" gives 1234.56 and
\* "abc" gives 0.0.
C7_CleanPriceTotal ==
    pc = "price_ret" =>
        /\ val.t = "none" => priceOut = Zero
        /\ val.t = "num" => priceOut = val.v
        /\ val.t = "str" =>
              LET kept == SelectSeq(val.s, LAMBDA c : c \in Digits \/ c = "." \/ c = "-")
              IN  IF WellFormedNumber(kept)
                  THEN priceOut = DecimalValue(kept)
                  ELSE priceOut = Zero
        /\ val = StrVal(<<"$", "1", ",", "2", "3", "4", ".", "5", "6">>)
              => priceOut = Frac(123456, 100)
        /\ val = StrVal(<<"a", "b", "c">>) => priceOut = Zero
        /\ val = StrVal(<<>>) => priceOut = Zero

C7_Witness ==
    /\ pc = "price_ret"
    /\ val = StrVal(<<"$", "1", ",", "2", "3", "4", ".", "5", "6">>)
    /\ priceOut = Frac(123456, 100)

-----------------------------------------------------------------------------
(* Claims about calculate_text_similarity (checked under SpecSim) *)

\* C4: the similarity score does not depend on the order of its two
\* arguments: calculate_text_similarity(a, b) = calculate_text_similarity(b, a).
C4_Symmetric == pc = "sim_ret" => simOut = simRev

\* C5: the score of a non-empty string against itself is 100, the score is
\* 0 as soon as one argument is empty, and every score lies in [0, 100].
C5_SelfAndEmpty ==
    pc = "sim_ret" =>
        /\ (s1 = <<>> \/ s2 = <<>>) => simOut = Zero
        /\ (s1 = s2 /\ s1 # <<>>) => simOut = Frac(100, 1)
        /\ FracLeq(Zero, simOut) /\ FracLeq(simOut, Frac(100, 1))

C5_Witness ==
    /\ pc = "sim_ret"
    /\ s1 = <<"a", "b", "A">>
    /\ s2 = s1
    /\ simOut = Frac(100, 1)

-----------------------------------------------------------------------------
(* normalize_columns on bounded inputs *)

HeaderUniverse ==
    {Header(0, "Clave", 0), Header(1, "Clave", 0), Header(0, "codigo", 0),
     Header(0, "Descripción", 0), Header(0, "Descripcion", 0),
     Header(0, "Precio", 0), Header(0, "Precio", 1), Header(0, "costo", 0),
     Header(0, "Marca", 0)}

\* A cell for a column of the sample row, by the kind of its header.
SampleCell(h) ==
    IF Strip(h) = "Clave" THEN StrVal(<<" ", "X", "1", " ">>)
    ELSE IF Strip(h) \in Range(clave_cols) THEN StrVal(<<"X", "2">>)
    ELSE IF Strip(h) = "Descripcion" THEN NoneVal
    ELSE IF Strip(h) \in Range(desc_cols) THEN StrVal(<<"a", "B">>)
    ELSE IF Strip(h) = "costo" THEN NumVal(Frac(1015, 1000))
    ELSE IF Strip(h) \in Range(price_cols)
         THEN StrVal(<<"$", "1", ",", "2", "3", "4", ".", "5", "6">>)
    ELSE StrVal(<<"c">>)

\* pd.read_excel never yields two equal headers (it renames duplicates).
IsInjective(s) == \A i, j \in 1..Len(s) : s[i] = s[j] => i = j

NormInputs ==
    {[headers |-> hs, rows |-> rs] :
        hs \in {h \in SeqsUpTo(HeaderUniverse, MaxCols) : IsInjective(h)},
        rs \in {0, 1}}

\* The table with 0 or 1 rows under the headers hs.
SampleTable(d) ==
    [headers |-> d.headers,
     rows |-> [n \in 1..d.rows |-> [i \in 1..Len(d.headers) |-> SampleCell(d.headers[i])]]]

InitNorm ==
    /\ pc = "norm_call"
    /\ rawDf \in {SampleTable(d) : d \in NormInputs}
    /\ normOut = Idle
    /\ IdleRun /\ IdlePrice /\ IdleSim

NormalizeColumns ==
    /\ pc = "norm_call"
    /\ normOut' = normalize_columns(rawDf)
    /\ rawDf' = StripColumns(rawDf)
    /\ pc' = "norm_ret"
    /\ UNCHANGED <<runVars, priceVars, simVars>>

SpecNorm == InitNorm /\ [][NormalizeColumns]_vars

-----------------------------------------------------------------------------
(* Claims about normalize_columns (checked under SpecNorm) *)

HasKeyHeader(df) ==
    \E i \in 1..Len(df.headers) : Strip(df.headers[i]) \in Range(clave_cols)

\* C8: normalize_columns returns ok = true exactly when some header, once
\* trimmed, is an accepted key spelling, and ok = false otherwise, whatever
\* the description and price headers are.
\* Of several accepted spellings of a field the earliest of the list is the
\* one used; a missing description or price header is no failure, the column
\* is filled with "" or 0.0.
C8_OkIffKeyHeader ==
    pc = "norm_ret" =>
        /\ normOut.t = "returned"
        /\ normOut.ok = HasKeyHeader(rawDf)
        /\ (normOut.ok /\ normOut.rows # <<>>) =>
              LET cores == {Strip(rawDf.headers[i]) : i \in 1..Len(rawDf.headers)}
                  out == Records(normOut)[1]
              IN  /\ out.Clave = IF "Clave" \in cores THEN <<"X", "1">> ELSE <<"X", "2">>
                  /\ out.Precio = IF "Precio" \in cores THEN Frac(123456, 100)
                                  ELSE IF "costo" \in cores THEN Frac(101, 100)
                                  ELSE Zero
                  /\ out.Descripcion = IF "Descripción" \in cores THEN <<"a", "B">>
                                       ELSE IF "Descripcion" \in cores THEN <<"n", "a", "n">>
                                       ELSE <<>>

\* C10: whenever normalize_columns succeeds, the table it returns has
\* exactly the columns Clave, Descripcion, Precio, in that order, once each.
C10_ThreeColumns ==
    (pc = "norm_ret" /\ normOut.t = "returned" /\ normOut.ok)
        => normOut.columns = <<"Clave", "Descripcion", "Precio">>

-----------------------------------------------------------------------------
(* main: one comparison run on two uploaded files *)

\* The rows a file may hold: a key cell, a description cell, a price cell.
RowUniverse ==
    {[k |-> StrVal(<<" ", "X", "1">>), d |-> StrVal(<<"a", "b">>),
      p |-> StrVal(<<"$", "1", ".", "1", "0">>)],
     [k |-> StrVal(<<"X", "1">>), d |-> StrVal(<<"A", "c", "b">>), p |-> NumVal(Zero)],
     [k |-> StrVal(<<"X", "1">>), d |-> StrVal(<<>>), p |-> NumVal(Frac(5, 1))],
     [k |-> StrVal(<<"X", "2", " ">>), d |-> StrVal(<<"a", "b">>),
      p |-> StrVal(<<"1", ".", "0", "1", "5">>)],
     [k |-> StrVal(<<" ">>), d |-> NoneVal, p |-> NoneVal]}

\* Column layouts: each column is a header and the cell of the row it holds
\* ("x" is a column of no interest).
LayoutStd ==
    <<[h |-> Header(0, "Clave", 0), c |-> "k"],
      [h |-> Header(0, "Descripción", 0), c |-> "d"],
      [h |-> Header(0, "Precio", 0), c |-> "p"]>>
LayoutAlt ==
    <<[h |-> Header(0, "Marca", 0), c |-> "x"],
      [h |-> Header(0, "Costo", 1), c |-> "p"],
      [h |-> Header(1, "codigo", 1), c |-> "k"]>>
LayoutNoKey ==
    <<[h |-> Header(0, "Referencia", 0), c |-> "k"],
      [h |-> Header(0, "Descripcion", 0), c |-> "d"],
      [h |-> Header(0, "Precio", 0), c |-> "p"]>>
LayoutDupKey ==
    <<[h |-> Header(0, "Clave", 0), c |-> "k"],
      [h |-> Header(1, "Clave", 0), c |-> "k"],
      [h |-> Header(0, "Precio", 0), c |-> "p"]>>

Layouts == {LayoutStd, LayoutAlt, LayoutNoKey, LayoutDupKey}

\* The raw table of the given layout holding the given rows.
RawTable(layout, rows) ==
    [headers |-> [i \in 1..Len(layout) |-> layout[i].h],
     rows |-> [n \in 1..Len(rows) |->
                 [i \in 1..Len(layout) |->
                     IF layout[i].c = "k" THEN rows[n].k
                     ELSE IF layout[i].c = "d" THEN rows[n].d
                     ELSE IF layout[i].c = "p" THEN rows[n].p
                     ELSE StrVal(<<"c">>)]]]

\* Both files uploaded: either two tables of the standard layout with up to
\* MaxRows rows each, or two tables of any layouts with at most one row.
Init ==
    /\ pc = "start"
    /\ \/ /\ fileA \in {RawTable(LayoutStd, r) : r \in SeqsUpTo(RowUniverse, MaxRows)}
          /\ fileB \in {RawTable(LayoutStd, r) : r \in SeqsUpTo(RowUniverse, MaxRows)}
       \/ /\ fileA \in {RawTable(l, r) : l \in Layouts, r \in SeqsUpTo(RowUniverse, 1)}
          /\ fileB \in {RawTable(l, r) : l \in Layouts, r \in SeqsUpTo(RowUniverse, 1)}
    /\ normA = Idle /\ normB = Idle
    /\ results = NoResults
    /\ shown = <<>>
    /\ IdlePrice /\ IdleSim /\ IdleNorm

\* st.error(...): the message and the value formatted into it.
\* Lines 261-262: st.error(f"Ocurrió un error inesperado: {e}"), then
\* st.exception(e).
Unexpected(e) ==
    <<[w |-> "error", text |-> "Ocurrió un error inesperado", arg |-> e],
      [w |-> "exception", text |-> "", arg |-> e]>>
SchemaError(side) ==
    [w |-> "error", text |-> "No se encontró una columna de 'Clave' o 'Código'", arg |-> side]

\* Lines 142-146: both tables are normalized before either flag is looked
\* at, each call trimming the headers of the table it is given; an exception
\* in either call ends the run in the except clause, the second table
\* untouched when the first call raised.
Normalize ==
    /\ pc = "start"
    /\ \E a \in {normalize_columns(fileA)}, b \in {normalize_columns(fileB)} :
           IF a.t = "raised"
           THEN /\ normA' = a /\ normB' = normB
                /\ fileA' = StripColumns(fileA) /\ fileB' = fileB
                /\ shown' = shown \o Unexpected(a.error)
                /\ pc' = "done"
           ELSE IF b.t = "raised"
           THEN /\ normA' = a /\ normB' = b
                /\ fileA' = StripColumns(fileA) /\ fileB' = StripColumns(fileB)
                /\ shown' = shown \o Unexpected(b.error)
                /\ pc' = "done"
           ELSE /\ normA' = a /\ normB' = b
                /\ fileA' = StripColumns(fileA) /\ fileB' = StripColumns(fileB)
                /\ shown' = shown
                /\ pc' = "validate"
    /\ UNCHANGED <<results, priceVars, simVars, normVars>>

\* Lines 148-150: if not valid_a: st.error(...); return
RejectA ==
    /\ pc = "validate"
    /\ ~normA.ok
    /\ shown' = Append(shown, SchemaError("A"))
    /\ pc' = "done"
    /\ UNCHANGED <<fileA, fileB, normA, normB, results, priceVars, simVars, normVars>>

\* Lines 151-153: if not valid_b: st.error(...); return
RejectB ==
    /\ pc = "validate"
    /\ normA.ok /\ ~normB.ok
    /\ shown' = Append(shown, SchemaError("B"))
    /\ pc' = "done"
    /\ UNCHANGED <<fileA, fileB, normA, normB, results, priceVars, simVars, normVars>>

\* Lines 155-184: the merge and the results dictionary.
Analyze ==
    /\ pc = "validate"
    /\ normA.ok /\ normB.ok
    /\ results' = BuildResults(normA, normB)
    /\ pc' = "render"
    /\ UNCHANGED <<fileA, fileB, normA, normB, shown, priceVars, simVars, normVars>>

\* Lines 186-247: the KPI cards, the two charts and the three tables.
Render ==
    /\ pc = "render"
    /\ shown' = shown \o
          <<[w |-> "kpi", values |-> <<results.total_a, results.total_b, results.common_count,
                                       results.only_a_count + results.only_b_count>>],
            [w |-> "donut", values |-> <<results.common_count, results.only_a_count,
                                         results.only_b_count>>],
            [w |-> "bar", values |-> <<results.total_a, results.total_b>>],
            [w |-> "table", values |-> results.common_df],
            [w |-> "table", values |-> results.only_a_df],
            [w |-> "table", values |-> results.only_b_df]>>
    /\ pc' = "export"
    /\ UNCHANGED <<fileA, fileB, normA, normB, results, priceVars, simVars, normVars>>

\* Lines 249-258: the Excel report behind the download button.
Export ==
    /\ pc = "export"
    /\ shown' = Append(shown, [w |-> "download", values |-> Sheets(results)])
    /\ pc' = "done"
    /\ UNCHANGED <<fileA, fileB, normA, normB, results, priceVars, simVars, normVars>>

Next == Normalize \/ RejectA \/ RejectB \/ Analyze \/ Render \/ Export

Spec == Init /\ [][Next]_vars

-----------------------------------------------------------------------------
(* Claims about the comparison run (checked under Spec) *)

Built == results # NoResults

KeysA == KeysOf(Records(normA))
KeysB == KeysOf(Records(normB))

\* C1: the results satisfy total_a = |matches| + |only_a| and
\* total_b = |matches| + |only_b|, for tables of any number of rows,
\* repeated keys and the empty key included.
C1_TotalsAddUp ==
    Built =>
        /\ results.total_a = results.common_count + results.only_a_count
        /\ results.total_b = results.common_count + results.only_b_count

\* C2: the keys of matches, of only_a and of only_b are pairwise disjoint,
\* their union is keys(A) union keys(B), and a key is in matches exactly
\* when it is in both tables, in only_a exactly when it is only in A, in
\* only_b exactly when it is only in B.
C2_KeyPartition ==
    Built =>
        LET km == KeysOf(results.common_df)
            ka == KeysOf(results.only_a_df)
            kb == KeysOf(results.only_b_df)
        IN  /\ km \cap ka = {} /\ km \cap kb = {} /\ ka \cap kb = {}
            /\ km \cup ka \cup kb = KeysA \cup KeysB
            /\ km = KeysA \cap KeysB
            /\ ka = KeysA \ KeysB
            /\ kb = KeysB \ KeysA

C2_Witness ==
    /\ pc = "done"
    /\ Built
    /\ results.common_df # <<>>
    /\ results.only_a_df # <<>>
    /\ results.only_b_df # <<>>
    /\ <<>> \in KeysA \cup KeysB

\* C3: in every match record the difference is price_b - price_a rounded to
\* two decimals, the percentage is difference / price_a * 100 when price_a
\* is not 0 and exactly 0 when price_a is 0; the prices are those of a row
\* of A and a row of B of that key, the percentage is always finite, and a
\* run on two valid tables always builds its results.
C3_PriceDelta ==
    /\ Built =>
          \A n \in 1..Len(results.common_df) :
              LET m == results.common_df[n]
              IN  /\ \E x \in Range(Records(normA)), y \in Range(Records(normB)) :
                        /\ x.Clave = m.Clave /\ y.Clave = m.Clave
                        /\ x.Precio = m.Precio_A /\ y.Precio = m.Precio_B
                  /\ m.DiferenciaAbs.n * m.Precio_A.d * m.Precio_B.d
                        = m.DiferenciaAbs.d * (m.Precio_B.n * m.Precio_A.d
                                               - m.Precio_A.n * m.Precio_B.d)
                  /\ 100 % m.DiferenciaAbs.d = 0
                  /\ m.DiferenciaPct.d > 0
                  /\ m.Precio_A.n = 0 => m.DiferenciaPct = Zero
                  /\ m.Precio_A.n # 0 =>
                        m.DiferenciaPct.n * m.Precio_A.n * m.DiferenciaAbs.d
                            = m.DiferenciaPct.d * 100 * m.DiferenciaAbs.n * m.Precio_A.d
    /\ (pc = "done" /\ normA # Idle /\ normB # Idle /\ normA.t = "returned"
            /\ normB.t = "returned" /\ normA.ok /\ normB.ok) => Built

C3_Witness ==
    /\ pc = "done"
    /\ Built
    /\ \E n \in 1..Len(results.common_df) :
          /\ results.common_df[n].Precio_A = Zero
          /\ results.common_df[n].Precio_B = Frac(5, 1)
          /\ results.common_df[n].DiferenciaAbs = Frac(5, 1)
          /\ results.common_df[n].DiferenciaPct = Zero

\* C6: reconciling (B, A) gives as only_a the only_b of (A, B) and as only_b
\* the only_a of (A, B): the same records (key, description, price) in the
\* same order.
C6_SwapSymmetry ==
    Built =>
        LET swapped == BuildResults(normB, normA)
        IN  /\ swapped.only_a_df = results.only_b_df
            /\ swapped.only_b_df = results.only_a_df

C6_Witness ==
    /\ pc = "done"
    /\ Built
    /\ Len(results.only_b_df) = 2
    /\ results.only_b_df[1].Clave # results.only_b_df[2].Clave
    /\ results.only_a_df # <<>>
    /\ fileB.rows[1][1] = StrVal(<<"X", "2", " ">>)

\* C9: whenever the normalization of A or of B fails for lack of a key
\* column, the run reports the failure of that side and ends without a
\* merge: nothing else is shown and no results are built; results are built
\* only when both normalizations returned ok.
C9_SchemaErrorNamesSide ==
    /\ (pc = "done" /\ normA # Idle /\ normA.t = "returned" /\ ~normA.ok)
          => (shown = <<SchemaError("A")>> /\ ~Built)
    /\ (pc = "done" /\ normA # Idle /\ normA.t = "returned" /\ normA.ok
            /\ normB # Idle /\ normB.t = "returned" /\ ~normB.ok)
          => (shown = <<SchemaError("B")>> /\ ~Built)
    /\ (pc = "done" /\ normB # Idle /\ normB.t = "returned" /\ ~normB.ok)
          => (shown \in {<<SchemaError("A")>>, <<SchemaError("B")>>} /\ ~Built)
    /\ Built => (normA.t = "returned" /\ normA.ok /\ normB.t = "returned" /\ normB.ok)

=============================================================================
